---------------------------- MODULE Spec2Model ----------------------------
(***************************************************************************)
(* A model of the search pipeline of MinaZaeri2002/searchEngine:           *)
(*   src/indexer.py        Indexer._tokenize, Indexer.build_index          *)
(*   src/search_engine.py  find_minimal_span, SearchEngine._tokenize_query,*)
(*                         _find_phrase_in_field, _rank_phrase, _rank      *)
(*                                                                         *)
(* A text is a sequence of characters; a character is a one-element string *)
(* (or the name of a non-ASCII code point, e.g. "ARABIC_YEH").  A token is *)
(* a non-empty sequence of characters.  A doc_id (a hex digest in the      *)
(* program) is a natural number; the order of the numbers stands for the   *)
(* lexicographic order of the digests.                                     *)
(*                                                                         *)
(* Python floats are modelled in fixed point: every score is an integer    *)
(* number of thousandths (Milli), every division rounds to the nearest     *)
(* thousandth.                                                             *)
(***************************************************************************)
EXTENDS Integers, Sequences, FiniteSets, TLC

VARIABLES
    pc,                \* position of the run: which operation acted last
    text,              \* the raw text handed to the two tokenizers
    indexer_tokens,    \* result of Indexer._tokenize(text)
    query_tokens,      \* result of SearchEngine._tokenize_query(text)
    position_lists,    \* argument of find_minimal_span
    min_span,          \* result of find_minimal_span
    data,              \* data of build_index: the documents, in dict (insertion) order
    doc_count,         \* Indexer.doc_count
    inverted_index,    \* Indexer.inverted_index / search_engine.inverted_index
    document_lengths,  \* Indexer.document_lengths / search_engine.document_lengths
    idf_values,        \* Indexer.idf_values / search_engine.idf_values
    terms,             \* argument of the last _rank / _rank_phrase call
    rank_locals,       \* per candidate document: the locals of the loop body
    result,            \* the list the last call returned: <<doc_id, score>> pairs
    web,               \* what the site serves for each normalized URL
    disallowed,        \* the URLs robots.txt forbids
    max_pages,         \* AdvancedCrawler.max_pages
    url_queue,         \* AdvancedCrawler.url_queue
    visited,           \* AdvancedCrawler.visited
    crawled_data,     \* AdvancedCrawler.crawled_data: the URLs stored, in dict order
    total_crawled,     \* AdvancedCrawler.crawl_stats['total_crawled']
    duplicate_count,   \* AdvancedCrawler.duplicate_count
    error_count,       \* AdvancedCrawler.error_count
    current_url,       \* current_url of the loop of crawl
    fetched            \* the URLs handed to session.get by crawl, in order

vars == <<pc, text, indexer_tokens, query_tokens, position_lists, min_span,
          data, doc_count, inverted_index, document_lengths, idf_values,
          terms, rank_locals, result,
          web, disallowed, max_pages, url_queue, visited, crawled_data,
          total_crawled, duplicate_count, error_count, current_url, fetched>>

tokVars   == <<text, indexer_tokens, query_tokens>>
spanVars  == <<position_lists, min_span>>
indexVars == <<data, doc_count, inverted_index, document_lengths, idf_values>>
rankVars  == <<terms, rank_locals, result>>
siteVars  == <<web, disallowed, max_pages>>
crawlVars == <<url_queue, visited, crawled_data, total_crawled, duplicate_count,
               error_count, current_url, fetched>>

\* No crawler has been constructed.
CrawlerIdle ==
    /\ web = <<>>
    /\ disallowed = {}
    /\ max_pages = 0
    /\ url_queue = <<>>
    /\ visited = {}
    /\ crawled_data = <<>>
    /\ total_crawled = 0
    /\ duplicate_count = 0
    /\ error_count = 0
    /\ current_url = ""
    /\ fetched = <<>>

-----------------------------------------------------------------------------
(* Generic helpers *)

Max(a, b) == IF a >= b THEN a ELSE b
Min(a, b) == IF a <= b THEN a ELSE b

\* All sequences over S of length exactly n, and of length at most n.
RECURSIVE SeqsOfLen(_, _)
SeqsOfLen(S, n) ==
    IF n = 0 THEN {<<>>}
    ELSE {Append(s, x) : s \in SeqsOfLen(S, n - 1), x \in S}

SeqsUpTo(S, n) == UNION {SeqsOfLen(S, k) : k \in 0..n}

Range(s) == {s[i] : i \in DOMAIN s}

\* The strictly increasing sequence that lists a finite set of integers.
RECURSIVE SortedSeq(_)
SortedSeq(S) ==
    IF S = {} THEN <<>>
    ELSE LET m == CHOOSE x \in S : \A y \in S : x <= y
         IN <<m>> \o SortedSeq(S \ {m})

\* e, after v has been evaluated.  TLC evaluates the arguments of an
\* operator only when they are read; a loop written as a recursion passes
\* its state through Eager so that each iteration is evaluated before the
\* next one starts, as in the program, instead of all of them nested.
Eager(v, e) == IF v = v THEN e ELSE e

StrictlyIncreasing(s) == \A i \in 1..(Len(s) - 1) : s[i] < s[i + 1]

-----------------------------------------------------------------------------
(* Characters and the regular-expression classes of the two tokenizers *)

AsciiLower == {"a", "b", "c", "d", "e", "f", "g", "h", "i", "j", "k", "l", "m",
               "n", "o", "p", "q", "r", "s", "t", "u", "v", "w", "x", "y", "z"}
AsciiUpper == {"A", "B"}
Digits     == {"0", "1"}

\* Letters of U+0600..U+06FF: U+064A, U+06CC, U+0643, U+06A9, U+0633 (seen).
ArabicLetters == {"ARABIC_YEH", "FARSI_YEH", "ARABIC_KAF", "KEHEH", "ARABIC_SEEN"}
\* In U+0600..U+06FF but not \w: U+064E (fatha, a mark), U+060C (a comma).
ArabicNonWord == {"ARABIC_FATHA", "ARABIC_COMMA"}
\* U+0130, a letter whose lower case is the two characters "i", U+0307.
OtherLetters  == {"I_WITH_DOT"}

\* \w: letters, digits and the underscore.
WordChars   == AsciiLower \cup AsciiUpper \cup Digits \cup {"_"}
                 \cup ArabicLetters \cup OtherLetters
\* \s
SpaceChars  == {" ", "\n"}
\* \u0600-\u06FF
ArabicRange == ArabicLetters \cup ArabicNonWord
\* Neither \w nor \s nor in U+0600..U+06FF: U+200C (zero-width non-joiner),
\* U+0307 (combining dot above), ASCII punctuation.
OtherChars  == {"!", "-", "ZWNJ", "COMBINING_DOT"}

\* [\w\s\u0600-\u06FF]: what re.sub keeps.
IsKept(c) == c \in WordChars \cup SpaceChars \cup ArabicRange
\* [\w\u0600-\u06FF]: what re.findall collects.
IsTokenChar(c) == c \in WordChars \cup ArabicRange

\* str.replace(U+064A, U+06CC).replace(U+0643, U+06A9)
ReplaceChar(c) ==
    IF c = "ARABIC_YEH" THEN "FARSI_YEH"
    ELSE IF c = "ARABIC_KAF" THEN "KEHEH"
    ELSE c

Replace(s) == [i \in DOMAIN s |-> ReplaceChar(s[i])]

\* str.lower(), character by character; U+0130 lowers to two characters.
LowerChar(c) ==
    IF c = "A" THEN <<"a">>
    ELSE IF c = "B" THEN <<"b">>
    ELSE IF c = "I_WITH_DOT" THEN <<"i", "COMBINING_DOT">>
    ELSE <<c>>

RECURSIVE Lower(_)
Lower(s) == IF s = <<>> THEN <<>> ELSE LowerChar(Head(s)) \o Lower(Tail(s))

\* The indexer substituting a space, as the query parser does.
SubEmptyAsSpace(s) == [i \in DOMAIN s |-> IF IsKept(s[i]) THEN s[i] ELSE " "]

\* re.sub(r'[^\w\s\u0600-\u06FF]', '', s): removed characters vanish.
SubEmpty(s) == SelectSeq(s, IsKept)

\* re.sub(r'[^\w\s\u0600-\u06FF]', ' ', s): removed characters become spaces.
SubSpace(s) == [i \in DOMAIN s |-> IF IsKept(s[i]) THEN s[i] ELSE " "]

\* re.findall(r'[\w\u0600-\u06FF]+', s): the maximal runs of token characters,
\* scanned left to right; cur is the run being read, acc the runs found.
RECURSIVE FindAllFrom(_, _, _, _)
FindAllFrom(s, i, cur, acc) ==
    IF i > Len(s)
    THEN IF cur = <<>> THEN acc ELSE Append(acc, cur)
    ELSE IF IsTokenChar(s[i])
         THEN FindAllFrom(s, i + 1, Append(cur, s[i]), acc)
         ELSE FindAllFrom(s, i + 1, <<>>,
                          IF cur = <<>> THEN acc ELSE Append(acc, cur))

FindAll(s) == FindAllFrom(s, 1, <<>>, <<>>)

\* Indexer._tokenize
Indexer_tokenize(s) == FindAll(SubEmpty(Lower(Replace(s))))

\* SearchEngine._tokenize_query
SearchEngine_tokenize_query(s) == FindAll(SubSpace(Lower(Replace(s))))
-----------------------------------------------------------------------------
(* find_minimal_span: the sliding window over the merged position lists *)

\* float('inf'), as an integer larger than every position.
Infinity == 1000000

\* The lexicographic order of Python tuples (pos, term_idx).
PairLess(p, q) == p[1] < q[1] \/ (p[1] = q[1] /\ p[2] < q[2])

RECURSIVE SortedPairs(_)
SortedPairs(S) ==
    IF S = {} THEN <<>>
    ELSE LET m == CHOOSE x \in S : \A y \in S \ {x} : PairLess(x, y)
         IN <<m>> \o SortedPairs(S \ {m})

\* sorted([(pos, term_idx) for term_idx, term_positions in enumerate(lists)
\*         for pos in term_positions]); term_idx counts from 0.
AllPositions(lists) ==
    SortedPairs(UNION {{<<lists[t][j], t - 1>> : j \in DOMAIN lists[t]}
                       : t \in DOMAIN lists})

\* The window shrunk by `if` in place of `while`: one entry at most leaves
\* it for each entry that comes in.
ShrinkWindowOnce(all, num_terms, pos, st) ==
    IF st.terms_in_window # num_terms THEN st
    ELSE LET left_pos      == all[st.left_pointer + 1][1]
             left_term_idx == all[st.left_pointer + 1][2]
             count         == st.term_counts[left_term_idx + 1] - 1
         IN [term_counts     |-> [st.term_counts EXCEPT ![left_term_idx + 1] = count],
             terms_in_window |-> IF count = 0 THEN st.terms_in_window - 1
                                 ELSE st.terms_in_window,
             left_pointer    |-> st.left_pointer + 1,
             min_span        |-> Min(st.min_span, pos - left_pos)]

\* The while loop: as long as every term is in the window, record the span
\* from the left end to pos and move the left end one entry to the right.
\* st = [term_counts, terms_in_window, left_pointer, min_span]; the list
\* term_counts is indexed from 1 here, from 0 in the program.
RECURSIVE ShrinkWindow(_, _, _, _)
ShrinkWindow(all, num_terms, pos, st) ==
    IF st.terms_in_window # num_terms THEN st
    ELSE LET left_pos      == all[st.left_pointer + 1][1]
             left_term_idx == all[st.left_pointer + 1][2]
             count         == st.term_counts[left_term_idx + 1] - 1
         IN ShrinkWindow(all, num_terms, pos,
              [term_counts     |-> [st.term_counts EXCEPT ![left_term_idx + 1] = count],
               terms_in_window |-> IF count = 0 THEN st.terms_in_window - 1
                                   ELSE st.terms_in_window,
               left_pointer    |-> st.left_pointer + 1,
               min_span        |-> Min(st.min_span, pos - left_pos)])

\* The for loop over all_positions, entry i (from 1).
RECURSIVE SweepFrom(_, _, _, _)
SweepFrom(all, num_terms, i, st) ==
    IF i > Len(all) THEN st.min_span
    ELSE LET pos      == all[i][1]
             term_idx == all[i][2]
             entered  == [st EXCEPT
                            !.terms_in_window =
                                IF st.term_counts[term_idx + 1] = 0 THEN @ + 1 ELSE @,
                            !.term_counts[term_idx + 1] = @ + 1]
             shrunk   == ShrinkWindow(all, num_terms, pos, entered)
         IN Eager(shrunk, SweepFrom(all, num_terms, i + 1, shrunk))

find_minimal_span(lists) ==
    IF lists = <<>> \/ \E t \in DOMAIN lists : lists[t] = <<>>
    THEN Infinity
    ELSE SweepFrom(AllPositions(lists), Len(lists), 1,
                   [term_counts     |-> [t \in 1..Len(lists) |-> 0],
                    terms_in_window |-> 0,
                    left_pointer    |-> 0,
                    min_span        |-> Infinity])
-----------------------------------------------------------------------------
(* Fixed-point arithmetic standing for the float operations *)

Milli == 1000

\* a / b rounded to the nearest integer, for b > 0.
RoundDiv(a, b) ==
    IF a >= 0 THEN (2 * a + b) \div (2 * b)
    ELSE -((2 * (-a) + b) \div (2 * b))

\* 1000 * ln(n) for n = 1..8.
LnMilli == <<0, 693, 1099, 1386, 1609, 1792, 1946, 2079>>

\* math.log(n / m) in thousandths.
LogMilli(n, m) == LnMilli[n] - LnMilli[m]

\* 1000 * sqrt(n) for n = 1..25.
SqrtTable == <<1000, 1414, 1732, 2000, 2236, 2449, 2646, 2828, 3000, 3162,
               3317, 3464, 3606, 3742, 3873, 4000, 4123, 4243, 4359, 4472,
               4583, 4690, 4796, 4899, 5000>>

\* math.sqrt(n) in thousandths.
SqrtMilli(n) == SqrtTable[n]

-----------------------------------------------------------------------------
(* Indexer.build_index *)

\* A dict with no key.
EmptyDict == [k \in {} |-> k]

\* The default factory of the inner defaultdict.
DefaultEntry ==
    [title_tf |-> 0, body_tf |-> 0, title_positions |-> <<>>, body_positions |-> <<>>]

\* self.inverted_index[token][doc_id]: both defaultdicts create what is
\* missing.  A postings dict is [keys, at]: its doc_ids in insertion order,
\* and the entry at each.
Touch(index, token, doc_id) ==
    LET withToken == IF token \in DOMAIN index THEN index
                     ELSE index @@ (token :> [keys |-> <<>>, at |-> EmptyDict])
        postings  == withToken[token]
    IN IF doc_id \in DOMAIN postings.at THEN withToken
       ELSE [withToken EXCEPT ![token] =
                [keys |-> Append(postings.keys, doc_id),
                 at   |-> postings.at @@ (doc_id :> DefaultEntry)]]

\* The title loop recording a token once per document: a repeated token
\* adds to title_tf without a position.
AddTitleTokenFirstPosition(index, token, doc_id, i) ==
    LET touched == IF token \in DOMAIN index THEN index
                   ELSE index @@ (token :> [keys |-> <<>>, at |-> EmptyDict])
        created == IF doc_id \in DOMAIN touched[token].at THEN touched
                   ELSE [touched EXCEPT ![token] =
                            [keys |-> Append(touched[token].keys, doc_id),
                             at   |-> touched[token].at @@ (doc_id :> DefaultEntry)]]
    IN [created EXCEPT
          ![token].at[doc_id].title_tf = @ + 1,
          ![token].at[doc_id].title_positions = IF @ = <<>> THEN <<i>> ELSE @]

\* The body of the loop over title_tokens.
AddTitleToken(index, token, doc_id, i) ==
    [Touch(index, token, doc_id) EXCEPT
        ![token].at[doc_id].title_tf = @ + 1,
        ![token].at[doc_id].title_positions = Append(@, i)]

\* The body of the loop over body_tokens.
AddBodyToken(index, token, doc_id, i) ==
    [Touch(index, token, doc_id) EXCEPT
        ![token].at[doc_id].body_tf = @ + 1,
        ![token].at[doc_id].body_positions = Append(@, i)]

\* for i, token in enumerate(title_tokens), from entry i (counted from 0).
RECURSIVE IndexTitleTokens(_, _, _, _)
IndexTitleTokens(index, tokens, doc_id, i) ==
    IF i >= Len(tokens) THEN index
    ELSE LET added == AddTitleToken(index, tokens[i + 1], doc_id, i)
         IN Eager(added, IndexTitleTokens(added, tokens, doc_id, i + 1))

RECURSIVE IndexBodyTokens(_, _, _, _)
IndexBodyTokens(index, tokens, doc_id, i) ==
    IF i >= Len(tokens) THEN index
    ELSE LET added == AddBodyToken(index, tokens[i + 1], doc_id, i)
         IN Eager(added, IndexBodyTokens(added, tokens, doc_id, i + 1))

\* One iteration of the loop over data.items(); st = [index, lengths].
IndexDocument(st, doc) ==
    LET title_tokens == Indexer_tokenize(doc.title)
        body_tokens  == Indexer_tokenize(doc.body)
    IN [index   |-> IndexBodyTokens(
                        IndexTitleTokens(st.index, title_tokens, doc.doc_id, 0),
                        body_tokens, doc.doc_id, 0),
        lengths |-> st.lengths @@
                    (doc.doc_id :> [title |-> Len(title_tokens),
                                    body  |-> Len(body_tokens)])]

\* The loop over data.items(), from document n.
RECURSIVE IndexDocuments(_, _, _)
IndexDocuments(st, docs, n) ==
    IF n > Len(docs) THEN st
    ELSE LET indexed == IndexDocument(st, docs[n])
         IN Eager(indexed, IndexDocuments(indexed, docs, n + 1))

\* The idf without the smoothing: log(doc_count / doc_frequency).
IdfWithoutSmoothing(count, doc_frequency) == LogMilli(count, doc_frequency)

\* idf = log(self.doc_count / (doc_frequency + 1))
Idf(count, doc_frequency) == LogMilli(count, doc_frequency + 1)

\* The second loop: idf of every token, tf_idf of every posting.
WithTfIdf(index, count) ==
    [token \in DOMAIN index |->
        LET postings == index[token]
            idf      == Idf(count, Len(postings.keys))
        IN [keys |-> postings.keys,
            at   |-> [d \in DOMAIN postings.at |->
                        [title_tf        |-> postings.at[d].title_tf,
                         body_tf         |-> postings.at[d].body_tf,
                         title_positions |-> postings.at[d].title_positions,
                         body_positions  |-> postings.at[d].body_positions,
                         title_tf_idf    |-> postings.at[d].title_tf * idf,
                         body_tf_idf     |-> postings.at[d].body_tf * idf]]]]

IdfValues(index, count) ==
    [token \in DOMAIN index |-> Idf(count, Len(index[token].keys))]

\* build_index(data): the three tables it returns (final_index carries the
\* tf_idf and position fields of self.inverted_index unchanged).
build_index ==
    /\ pc = "loaded"
    /\ LET built == IndexDocuments([index |-> EmptyDict, lengths |-> EmptyDict], data, 1)
       IN /\ doc_count' = Len(data)
          /\ inverted_index' = WithTfIdf(built.index, Len(data))
          /\ document_lengths' = built.lengths
          /\ idf_values' = IdfValues(built.index, Len(data))
    /\ pc' = "indexed"
    /\ UNCHANGED <<data, tokVars, spanVars, rankVars, siteVars, crawlVars>>
-----------------------------------------------------------------------------
(* SearchEngine: configuration, phrase matching, the two rankers *)

\* SearchEngine.__init__ defaults; the two weights 0.7 and 0.3 in tenths.
title_weight      == 7
body_weight       == 3
span_boost_factor == 2
proximity_power   == 3
max_span_dist     == 20
\* title_match_bonus = 50 and the phrase factor base_score * 100.
TitleMatchBonus   == 50
PhraseFactor      == 100

\* term in inverted_index and doc_id in inverted_index[term]
HasPosting(term, doc_id) ==
    /\ term \in DOMAIN inverted_index
    /\ doc_id \in DOMAIN inverted_index[term].at

\* The insertion of a sort without reverse=True: ascending, stable.
RECURSIVE InsertByScoreAscending(_, _)
InsertByScoreAscending(sorted, item) ==
    IF sorted = <<>> THEN <<item>>
    ELSE IF Head(sorted)[2] <= item[2]
         THEN <<Head(sorted)>> \o InsertByScoreAscending(Tail(sorted), item)
         ELSE <<item>> \o sorted

\* sorted(scores.items(), key=lambda item: item[1], reverse=True): Python's
\* sort is stable, also with reverse=True, so items of equal score keep the
\* order in which they were inserted into scores.
RECURSIVE InsertByScore(_, _)
InsertByScore(sorted, item) ==
    IF sorted = <<>> THEN <<item>>
    ELSE IF Head(sorted)[2] >= item[2]
         THEN <<Head(sorted)>> \o InsertByScore(Tail(sorted), item)
         ELSE <<item>> \o sorted

RECURSIVE SortedByScore(_)
SortedByScore(items) ==
    IF items = <<>> THEN <<>>
    ELSE InsertByScore(SortedByScore(SubSeq(items, 1, Len(items) - 1)),
                       items[Len(items)])

\* A phrase test that asks for every term in the field, at any position.
find_terms_in_field(ts, doc_id, field_positions_key) ==
    \A i \in DOMAIN ts :
        inverted_index[ts[i]].at[doc_id][field_positions_key] # <<>>

\* _find_phrase_in_field(terms, doc_id, field_positions_key)
find_phrase_in_field(ts, doc_id, field_positions_key) ==
    \E p \in DOMAIN inverted_index[ts[1]].at[doc_id][field_positions_key] :
        LET pos == inverted_index[ts[1]].at[doc_id][field_positions_key][p]
        IN \A i \in 1..(Len(ts) - 1) :
              (pos + i) \in Range(inverted_index[ts[i + 1]].at[doc_id][field_positions_key])

\* The term loop of _rank for one document, from term i; acc holds the data
\* dict and the two flags.
RECURSIVE AccumulateTerms(_, _, _, _)
AccumulateTerms(ts, i, doc_id, acc) ==
    IF i > Len(ts) THEN acc
    ELSE IF ~HasPosting(ts[i], doc_id)
         THEN AccumulateTerms(ts, i + 1, doc_id,
                  [acc EXCEPT !.all_in_title = FALSE, !.all_in_body = FALSE])
         ELSE LET term_data == inverted_index[ts[i]].at[doc_id]
                  title_positions == term_data.title_positions
                  body_positions  == term_data.body_positions
                  next ==
                   [title_score  |-> acc.title_score + term_data.title_tf_idf,
                    body_score   |-> acc.body_score + term_data.body_tf_idf,
                    title_pos    |-> IF title_positions # <<>>
                                     THEN Append(acc.title_pos, title_positions)
                                     ELSE acc.title_pos,
                    body_pos     |-> IF body_positions # <<>>
                                     THEN Append(acc.body_pos, body_positions)
                                     ELSE acc.body_pos,
                    all_in_title |-> acc.all_in_title /\ title_positions # <<>>,
                    all_in_body  |-> acc.all_in_body /\ body_positions # <<>>]
              IN Eager(next, AccumulateTerms(ts, i + 1, doc_id, next))

\* document_lengths.get(doc_id, {}).get(field, 1) or 1
FieldLength(doc_id, field) ==
    IF doc_id \in DOMAIN document_lengths /\ document_lengths[doc_id][field] # 0
    THEN document_lengths[doc_id][field]
    ELSE 1

\* (1.0 / (1.0 + span)) ** proximity_power * weight
ProximityTerm(span, weight) ==
    RoundDiv(Milli * weight, 10 * ((1 + span) ^ proximity_power))

\* The title test nested under the proximity test:
\* span < max_span_dist and span == len(terms) - 1.
TitleMatchWithinMaxSpan(span, num_terms) ==
    span < max_span_dist /\ span = num_terms - 1

\* if span == len(terms) - 1: title_match_bonus = 50
TitleMatch(span, num_terms) == span = num_terms - 1

\* The body of the loop over candidate_docs in _rank: the locals at its end.
RankDocument(ts, doc_id) ==
    LET acc == AccumulateTerms(ts, 1, doc_id,
                   [title_score |-> 0, body_score |-> 0,
                    title_pos |-> <<>>, body_pos |-> <<>>,
                    all_in_title |-> TRUE, all_in_body |-> TRUE])
        norm_title == RoundDiv(acc.title_score * Milli,
                               SqrtMilli(FieldLength(doc_id, "title")))
        norm_body  == RoundDiv(acc.body_score * Milli,
                               SqrtMilli(FieldLength(doc_id, "body")))
        combined_score == RoundDiv(norm_title * title_weight
                                     + norm_body * body_weight, 10)
        in_title   == acc.all_in_title /\ Len(acc.title_pos) = Len(ts)
        in_body    == acc.all_in_body /\ Len(acc.body_pos) = Len(ts)
        title_span == IF in_title THEN find_minimal_span(acc.title_pos) ELSE Infinity
        body_span  == IF in_body THEN find_minimal_span(acc.body_pos) ELSE Infinity
        prox_bonus ==
            (IF in_title /\ title_span < max_span_dist
             THEN ProximityTerm(title_span, title_weight) ELSE 0)
          + (IF in_body /\ body_span < max_span_dist
             THEN ProximityTerm(body_span, body_weight) ELSE 0)
        title_match_bonus ==
            IF in_title /\ TitleMatch(title_span, Len(ts)) THEN TitleMatchBonus ELSE 0
    IN [combined_score    |-> combined_score,
        prox_bonus        |-> prox_bonus,
        title_match_bonus |-> title_match_bonus,
        final_score       |-> RoundDiv(combined_score
                                         * (Milli + span_boost_factor * prox_bonus),
                                       Milli)
                              + title_match_bonus * Milli]

\* candidate_docs of _rank: the union of the postings' doc_ids.
CandidateDocs(ts) ==
    UNION {Range(inverted_index[ts[i]].keys)
           : i \in {j \in DOMAIN ts : ts[j] \in DOMAIN inverted_index}}

\* No filter on the final score.
KeepEveryScore(final_score) == TRUE

\* The filter with >= in place of >.
KeepScoreNonNegative(final_score) == final_score >= 0

\* if final_score > 0: scores[doc_id] = final_score
KeepScore(final_score) == final_score > 0

\* scores of _rank, in insertion order; order lists candidate_docs as the
\* set iterates.
RankScores(ts, order) ==
    LET items == [n \in DOMAIN order |->
                    <<order[n], RankDocument(ts, order[n]).final_score>>]
    IN SelectSeq(items, LAMBDA item : KeepScore(item[2]))

\* _rank(terms), the candidate set iterating in the given order.
SearchEngine_rank(ts, order) ==
    IF ts = <<>> \/ order = <<>> THEN <<>>
    ELSE SortedByScore(RankScores(ts, order))

\* The body of the loop over candidate_docs in _rank_phrase.
PhraseDocument(ts, doc_id) ==
    IF ~(\A i \in DOMAIN ts : HasPosting(ts[i], doc_id))
    THEN [has_title_match |-> FALSE, has_body_match |-> FALSE, base_score |-> 0]
    ELSE [has_title_match |-> find_phrase_in_field(ts, doc_id, "title_positions"),
          has_body_match  |-> find_phrase_in_field(ts, doc_id, "body_positions"),
          base_score      |->
              LET RECURSIVE Sum(_)
                  Sum(i) == IF i > Len(ts) THEN 0
                            ELSE RoundDiv(
                                   inverted_index[ts[i]].at[doc_id].title_tf_idf * title_weight
                                   + inverted_index[ts[i]].at[doc_id].body_tf_idf * body_weight,
                                   10) + Sum(i + 1)
              IN Sum(1)]

\* if has_title_match or has_body_match: scores[doc_id] = base_score * 100
PhraseMatches(locals) == locals.has_title_match \/ locals.has_body_match

\* scores of _rank_phrase for len(terms) >= 2, in insertion order: the
\* postings of the first term are walked in their dict order.
PhraseScores(ts) ==
    LET order == inverted_index[ts[1]].keys
        items == [n \in DOMAIN order |->
                    <<order[n], PhraseDocument(ts, order[n]).base_score * PhraseFactor>>]
    IN SelectSeq(items, LAMBDA item : PhraseMatches(PhraseDocument(ts, item[1])))

\* _rank_phrase(terms) for len(terms) >= 2.
SearchEngine_rank_phrase(ts) ==
    IF ts[1] \notin DOMAIN inverted_index THEN <<>>
    ELSE SortedByScore(PhraseScores(ts))
-----------------------------------------------------------------------------
(* Inputs *)

\* Bounds of the model.
MaxTextLen      == 4   \* characters of a text handed to the tokenizers
MaxLists        == 3   \* position lists handed to find_minimal_span
MaxPos          == 2   \* largest position in such a list
MaxDocs         == 2   \* documents of a corpus
MaxCorpusTokens == 3   \* tokens of a corpus, all fields of all documents
MaxQueryLen     == 2   \* tokens of a query
MaxLinks        == 2   \* links of a page
MaxPagesCap     == 2   \* largest max_pages of a crawler

\* The characters the tokenizer inputs are drawn from: a lower-case and an
\* upper-case letter, a space, a removed character, the folded U+064A, a
\* non-word character of the Arabic block, and U+0130.
TokAlphabet == {"a", "B", " ", "!", "ARABIC_YEH", "ARABIC_FATHA", "I_WITH_DOT"}

\* Strictly increasing position lists over 0..MaxPos.
IncreasingLists == {SortedSeq(S) : S \in SUBSET (0..MaxPos)}

\* The lists of scenario 4 of the specification.
Scenario4Lists == << <<1, 4, 9>>, <<2, 7>>, <<5>> >>

Letters == <<"a", "b", "c", "d", "e", "f", "g", "h", "i", "j", "k", "l", "m",
             "n", "o", "p", "q", "r", "s", "t", "u", "v", "w", "x", "y", "z">>

\* The words of the documents, and a word that no document holds.
Vocabulary  == {<<"a">>, <<"b">>}
UnknownWord == <<"z">>

Foo          == <<"f", "o", "o">>
Search       == <<"s", "e", "a", "r", "c", "h">>
Engine       == <<"e", "n", "g", "i", "n", "e">>
Optimization == <<"o", "p", "t", "i", "m", "i", "z", "a", "t", "i", "o", "n">>

\* max_span_dist + 1 distinct one-letter words: as a phrase they span
\* max_span_dist positions.
RECURSIVE OneLetterWords(_)
OneLetterWords(n) ==
    IF n = 0 THEN <<>> ELSE Append(OneLetterWords(n - 1), <<Letters[n]>>)

LongWords == OneLetterWords(max_span_dist + 1)

\* The words joined by single spaces.
RECURSIVE JoinWords(_)
JoinWords(ws) ==
    IF ws = <<>> THEN <<>>
    ELSE IF Len(ws) = 1 THEN ws[1]
    ELSE ws[1] \o <<" ">> \o JoinWords(Tail(ws))

\* The documents (title, body) that hold exactly t tokens.
ContentsWith(t) ==
    UNION {{[title |-> JoinWords(x), body |-> JoinWords(y)]
            : x \in SeqsOfLen(Vocabulary, i), y \in SeqsOfLen(Vocabulary, t - i)}
           : i \in 0..t}

\* The sequences of n documents that hold at most t tokens together.
RECURSIVE ContentLists(_, _)
ContentLists(n, t) ==
    IF n = 0 THEN {<<>>}
    ELSE UNION {{<<c>> \o rest : c \in ContentsWith(k), rest \in ContentLists(n - 1, t - k)}
                : k \in 0..t}

\* The dict order of crawled_data is the crawl order, not the order of the
\* digests: the doc_ids 1..n ascend or descend along it.
IdOrders(n) == {[i \in 1..n |-> i], [i \in 1..n |-> n + 1 - i]}

BoundedCorpora ==
    UNION {{[i \in 1..n |-> [doc_id |-> ids[i], title |-> c[i].title, body |-> c[i].body]]
            : c \in ContentLists(n, MaxCorpusTokens), ids \in IdOrders(n)}
           : n \in 0..MaxDocs}

\* Scenario 1 of the specification: d1, d2, d3.
Scenario1Corpus ==
    << [doc_id |-> 1, title |-> JoinWords(<<Search, Engine>>), body |-> <<>>],
       [doc_id |-> 2, title |-> Engine, body |-> Search],
       [doc_id |-> 3, title |-> <<>>, body |-> JoinWords(<<Search, Engine, Optimization>>)] >>

\* Scenario 3 of the specification: one document, title foo, body foo foo foo.
Scenario3Corpus ==
    << [doc_id |-> 1, title |-> Foo, body |-> JoinWords(<<Foo, Foo, Foo>>)] >>

\* One document whose title is max_span_dist + 1 distinct words.
LongTitleCorpus ==
    << [doc_id |-> 1, title |-> JoinWords(LongWords), body |-> <<>>] >>

\* Two documents of the same content, the larger doc_id crawled first.
TiedCorpus ==
    << [doc_id |-> 2, title |-> JoinWords(<<<<"a">>, <<"b">>>>), body |-> <<>>],
       [doc_id |-> 1, title |-> JoinWords(<<<<"a">>, <<"b">>>>), body |-> <<>>] >>

\* A phrase in the title of one document and in the body of another, and
\* two documents without it: the idf of its terms is positive.
RareTermsCorpus ==
    << [doc_id |-> 1, title |-> JoinWords(<<<<"a">>, <<"b">>>>), body |-> <<>>],
       [doc_id |-> 2, title |-> <<>>, body |-> JoinWords(<<<<"a">>, <<"b">>>>)],
       [doc_id |-> 3, title |-> <<"c">>, body |-> <<>>],
       [doc_id |-> 4, title |-> <<>>, body |-> <<"c">>] >>

Corpora ==
    BoundedCorpora \cup {Scenario1Corpus, Scenario3Corpus, LongTitleCorpus,
                         TiedCorpus, RareTermsCorpus}

\* The token sequences handed to _rank and _rank_phrase on a corpus: the
\* short sequences of its words and of a word it does not hold, and the
\* whole title and the whole body of each of its documents.
FieldTokens(corpus) ==
    {Indexer_tokenize(corpus[n].title) : n \in DOMAIN corpus}
      \cup {Indexer_tokenize(corpus[n].body) : n \in DOMAIN corpus}

Queries(corpus) ==
    SeqsUpTo(UNION {Range(ts) : ts \in FieldTokens(corpus)} \cup {UnknownWord},
             MaxQueryLen)
      \cup FieldTokens(corpus)

\* The orders in which a set can iterate.
Orderings(S) ==
    {order \in SeqsOfLen(S, Cardinality(S)) : Range(order) = S}

-----------------------------------------------------------------------------
(* AdvancedCrawler: the site, the links of a page, the loop of crawl *)

\* The normalized URLs of the site; the first one is the start_url.
StartUrl == "http://s/"
SiteUrls == {"http://s/", "http://s/b"}

\* The href values of the links of a page.
Hrefs == {"/", "/b", "/b/", "http://x/", "http://["}

\* urljoin(base_url, link['href']) raises ValueError (Invalid IPv6 URL).
UrljoinRaises(href) == href = "http://["

\* self._normalize_url(urljoin(base_url, link['href'])) for a base_url of
\* the site: the trailing slash of the path is stripped.
normalize_url(href) ==
    CASE href = "/"         -> "http://s/"
      [] href = "/b"        -> "http://s/b"
      [] href = "/b/"       -> "http://s/b"
      [] href = "http://x/" -> "http://x/"

\* _is_valid(url): the netloc is the domain of the start_url.
is_valid(url) == url \in SiteUrls

\* _is_allowed(url)
is_allowed(url) == url \notin disallowed

\* What session.get and _extract_content can make of a URL: a page of
\* links, a response that is not 200 text/html, an exception of the fetch,
\* an exception of the extraction.
Pages ==
    {[response |-> r, hrefs |-> <<>>] : r \in {"not_html", "fetch_error", "extract_error"}}
      \cup {[response |-> "html", hrefs |-> h] : h \in SeqsUpTo(Hrefs, MaxLinks)}

\* self.crawled_data[url_hash] = {...}; the hash stands for its URL.
Store(pages, url) ==
    IF url \in Range(pages) THEN pages ELSE Append(pages, url)

\* _handle_links from link i: st = [url_queue, duplicate_count, raised].
RECURSIVE handle_links(_, _, _)
handle_links(hrefs, i, st) ==
    IF i > Len(hrefs) THEN st
    ELSE IF UrljoinRaises(hrefs[i]) THEN [st EXCEPT !.raised = TRUE]
    ELSE LET normalized_url == normalize_url(hrefs[i])
         IN IF normalized_url \in visited
            THEN handle_links(hrefs, i + 1,
                     [st EXCEPT !.duplicate_count = @ + 1])
            ELSE IF is_valid(normalized_url)
            THEN handle_links(hrefs, i + 1,
                     [st EXCEPT !.url_queue = Append(@, normalized_url)])
            ELSE handle_links(hrefs, i + 1, st)

InitCrawl ==
    /\ pc = "crawl_loop"
    /\ web \in [SiteUrls -> Pages]
    /\ disallowed \in SUBSET (SiteUrls \ {StartUrl})
    /\ max_pages \in 0..MaxPagesCap
    /\ url_queue = <<StartUrl>>
    /\ visited = {}
    /\ crawled_data = <<>>
    /\ total_crawled = 0
    /\ duplicate_count = 0
    /\ error_count = 0
    /\ current_url = ""
    /\ fetched = <<>>
    /\ text = <<>>
    /\ indexer_tokens = <<>>
    /\ query_tokens = <<>>
    /\ position_lists = <<>>
    /\ min_span = 0
    /\ data = <<>>
    /\ doc_count = 0
    /\ inverted_index = EmptyDict
    /\ document_lengths = EmptyDict
    /\ idf_values = EmptyDict
    /\ terms = <<>>
    /\ rank_locals = EmptyDict
    /\ result = <<>>

\* The test of the while loop.
CrawlGoesOn == total_crawled < max_pages /\ url_queue # <<>>

\* One pass of the loop up to the fetch: popleft, the visited test, the
\* robots test.
crawl_dequeue ==
    /\ pc = "crawl_loop"
    /\ CrawlGoesOn
    /\ current_url' = Head(url_queue)
    /\ url_queue' = Tail(url_queue)
    /\ IF Head(url_queue) \in visited
       THEN /\ pc' = "crawl_loop"
            /\ UNCHANGED visited
       ELSE /\ visited' = visited \cup {Head(url_queue)}
            /\ pc' = IF is_allowed(Head(url_queue)) THEN "crawl_fetch" ELSE "crawl_loop"
    /\ UNCHANGED <<crawled_data, total_crawled, duplicate_count, error_count, fetched>>
    /\ UNCHANGED <<siteVars, tokVars, spanVars, indexVars, rankVars>>

\* session.get(current_url), _extract_content and the store in
\* crawled_data; an exception ends the pass with error_count += 1.
crawl_fetch ==
    /\ pc = "crawl_fetch"
    /\ fetched' = Append(fetched, current_url)
    /\ LET response == web[current_url].response
       IN /\ crawled_data' = IF response = "html" THEN Store(crawled_data, current_url)
                             ELSE crawled_data
          /\ error_count' = IF response \in {"fetch_error", "extract_error"}
                            THEN error_count + 1 ELSE error_count
          /\ pc' = IF response = "html" THEN "crawl_links" ELSE "crawl_loop"
    /\ UNCHANGED <<url_queue, visited, total_crawled, duplicate_count, current_url>>
    /\ UNCHANGED <<siteVars, tokVars, spanVars, indexVars, rankVars>>

\* _handle_links(soup, current_url), then total_crawled += 1; an exception
\* of a link ends the pass with error_count += 1 and without the count.
crawl_handle_links ==
    /\ pc = "crawl_links"
    /\ LET st == handle_links(web[current_url].hrefs, 1,
                     [url_queue |-> url_queue, duplicate_count |-> duplicate_count,
                      raised |-> FALSE])
       IN /\ url_queue' = st.url_queue
          /\ duplicate_count' = st.duplicate_count
          /\ total_crawled' = IF st.raised THEN total_crawled ELSE total_crawled + 1
          /\ error_count' = IF st.raised THEN error_count + 1 ELSE error_count
    /\ pc' = "crawl_loop"
    /\ UNCHANGED <<visited, crawled_data, current_url, fetched>>
    /\ UNCHANGED <<siteVars, tokVars, spanVars, indexVars, rankVars>>

\* The loop ends: the finally block saves crawled_data as it is.
crawl_finish ==
    /\ pc = "crawl_loop"
    /\ ~CrawlGoesOn
    /\ pc' = "crawl_done"
    /\ UNCHANGED <<crawlVars, siteVars, tokVars, spanVars, indexVars, rankVars>>

NextCrawl == crawl_dequeue \/ crawl_fetch \/ crawl_handle_links \/ crawl_finish

SpecCrawl == InitCrawl /\ [][NextCrawl]_vars

-----------------------------------------------------------------------------
(* The tokenizers on one text *)

InitTok ==
    /\ pc = {}
    /\ text \in SeqsUpTo(TokAlphabet, MaxTextLen)
    /\ indexer_tokens = <<>>
    /\ query_tokens = <<>>
    /\ position_lists = <<>>
    /\ min_span = 0
    /\ data = <<>>
    /\ doc_count = 0
    /\ inverted_index = EmptyDict
    /\ document_lengths = EmptyDict
    /\ idf_values = EmptyDict
    /\ terms = <<>>
    /\ rank_locals = EmptyDict
    /\ result = <<>>
    /\ CrawlerIdle

tokenize ==
    /\ "indexer" \notin pc
    /\ indexer_tokens' = Indexer_tokenize(text)
    /\ pc' = pc \cup {"indexer"}
    /\ UNCHANGED <<text, query_tokens, spanVars, indexVars, rankVars, siteVars, crawlVars>>

tokenize_query ==
    /\ "query" \notin pc
    /\ query_tokens' = SearchEngine_tokenize_query(text)
    /\ pc' = pc \cup {"query"}
    /\ UNCHANGED <<text, indexer_tokens, spanVars, indexVars, rankVars, siteVars, crawlVars>>

NextTok == tokenize \/ tokenize_query

SpecTok == InitTok /\ [][NextTok]_vars

-----------------------------------------------------------------------------
(* find_minimal_span on one sequence of position lists *)

InitSpan ==
    /\ pc = "start"
    /\ position_lists \in
          UNION {[1..k -> IncreasingLists] : k \in 0..MaxLists} \cup {Scenario4Lists}
    /\ min_span = 0
    /\ text = <<>>
    /\ indexer_tokens = <<>>
    /\ query_tokens = <<>>
    /\ data = <<>>
    /\ doc_count = 0
    /\ inverted_index = EmptyDict
    /\ document_lengths = EmptyDict
    /\ idf_values = EmptyDict
    /\ terms = <<>>
    /\ rank_locals = EmptyDict
    /\ result = <<>>
    /\ CrawlerIdle

minimal_span ==
    /\ pc = "start"
    /\ min_span' = find_minimal_span(position_lists)
    /\ pc' = "span_done"
    /\ UNCHANGED <<position_lists, tokVars, indexVars, rankVars, siteVars, crawlVars>>

NextSpan == minimal_span

SpecSpan == InitSpan /\ [][NextSpan]_vars

-----------------------------------------------------------------------------
(* The pipeline: a corpus is indexed, then a query is ranked.  The index is *)
(* immutable once built and ranking reads nothing else, so one query per    *)
(* behaviour reaches every result the engine can return.                    *)

Init ==
    /\ pc = "loaded"
    /\ data \in Corpora
    /\ doc_count = 0
    /\ inverted_index = EmptyDict
    /\ document_lengths = EmptyDict
    /\ idf_values = EmptyDict
    /\ terms = <<>>
    /\ rank_locals = EmptyDict
    /\ result = <<>>
    /\ text = <<>>
    /\ indexer_tokens = <<>>
    /\ query_tokens = <<>>
    /\ position_lists = <<>>
    /\ min_span = 0
    /\ CrawlerIdle

\* _rank(terms); the candidate set iterates in some order.
rank ==
    /\ pc = "indexed"
    /\ \E ts \in Queries(data) :
         \E order \in Orderings(IF ts = <<>> THEN {} ELSE CandidateDocs(ts)) :
            /\ terms' = ts
            /\ rank_locals' = [d \in Range(order) |-> RankDocument(ts, d)]
            /\ result' = SearchEngine_rank(ts, order)
    /\ pc' = "ranked"
    /\ UNCHANGED <<indexVars, tokVars, spanVars, siteVars, crawlVars>>

\* _rank_phrase(terms): empty for no term, _rank(terms) for one term.
rank_phrase ==
    /\ pc = "indexed"
    /\ \E ts \in Queries(data) :
         /\ terms' = ts
         /\ IF Len(ts) = 0
            THEN rank_locals' = EmptyDict /\ result' = <<>>
            ELSE IF Len(ts) = 1
            THEN \E order \in Orderings(CandidateDocs(ts)) :
                    /\ rank_locals' = [d \in Range(order) |-> RankDocument(ts, d)]
                    /\ result' = SearchEngine_rank(ts, order)
            ELSE /\ rank_locals' =
                       IF ts[1] \in DOMAIN inverted_index
                       THEN [d \in Range(inverted_index[ts[1]].keys) |-> PhraseDocument(ts, d)]
                       ELSE EmptyDict
                 /\ result' = SearchEngine_rank_phrase(ts)
    /\ pc' = "phrase_ranked"
    /\ UNCHANGED <<indexVars, tokVars, spanVars, siteVars, crawlVars>>

Next == build_index \/ rank \/ rank_phrase

Spec == Init /\ [][Next]_vars
-----------------------------------------------------------------------------
(* C1: find_minimal_span against the brute-force minimum *)

\* Every selection of one position from each list.
RECURSIVE Selections(_)
Selections(lists) ==
    IF lists = <<>> THEN {<<>>}
    ELSE {<<p>> \o rest : p \in Range(Head(lists)), rest \in Selections(Tail(lists))}

SetMax(S) == CHOOSE x \in S : \A y \in S : y <= x
SetMin(S) == CHOOSE x \in S : \A y \in S : x <= y

\* min over the selections of max(p_i) - min(p_i); +infinity without one.
BruteForceSpan(lists) ==
    IF lists = <<>> \/ Selections(lists) = {} THEN Infinity
    ELSE SetMin({SetMax(Range(sel)) - SetMin(Range(sel)) : sel \in Selections(lists)})

\* C1: for every sequence of strictly increasing position lists,
\* find_minimal_span returns the minimum of max(p_i) - min(p_i) over all
\* selections of one position per list, and +infinity when there is no list
\* or one of the lists is empty.
C1_MinimalSpanIsBruteForce ==
    pc = "span_done" =>
        /\ \A t \in DOMAIN position_lists : StrictlyIncreasing(position_lists[t])
        /\ min_span = BruteForceSpan(position_lists)
        /\ (min_span = Infinity) <=>
              (position_lists = <<>>
                 \/ \E t \in DOMAIN position_lists : position_lists[t] = <<>>)

\* Three lists, one of them with several positions, that share no position.
C1_Witness ==
    /\ pc = "span_done"
    /\ Len(position_lists) = 3
    /\ \E t \in DOMAIN position_lists : Len(position_lists[t]) >= 2
    /\ min_span > 0
    /\ min_span < Infinity

-----------------------------------------------------------------------------
(* C4: the two tokenizers on the same text *)

BothTokenized == pc = {"indexer", "query"}

\* A removed character stands directly between two token characters.
RemovedCharBetween(s) ==
    \E i \in 2..(Len(s) - 1) :
        ~IsKept(s[i]) /\ IsTokenChar(s[i - 1]) /\ IsTokenChar(s[i + 1])

\* A run of one or more removed characters stands between two token
\* characters.
RemovedRunBetween(s) ==
    \E i \in 1..Len(s) : \E j \in (i + 2)..Len(s) :
        /\ IsTokenChar(s[i])
        /\ IsTokenChar(s[j])
        /\ \A k \in (i + 1)..(j - 1) : ~IsKept(s[k])

RECURSIVE Flatten(_)
Flatten(tokens) ==
    IF tokens = <<>> THEN <<>> ELSE Head(tokens) \o Flatten(Tail(tokens))

\* C4 as stated: the two tokenizers return the same tokens except only for
\* the texts in which a removed character stands directly between two token
\* characters, where the indexer merges the neighbours.
C4_SameTokensUnlessRemovedCharBetween ==
    BothTokenized =>
        /\ ~RemovedCharBetween(text) => indexer_tokens = query_tokens
        /\ RemovedCharBetween(text) => Len(indexer_tokens) < Len(query_tokens)

\* C4, amended: the two tokenizers return the same tokens except exactly for
\* the texts which, once folded and lower-cased, hold a run of one or more
\* removed characters between two token characters; there the indexer
\* returns fewer tokens, made of the same characters in the same order.
C4_SameTokensUnlessRemovedRunBetween ==
    BothTokenized =>
        /\ ~RemovedRunBetween(Lower(Replace(text))) => indexer_tokens = query_tokens
        /\ RemovedRunBetween(Lower(Replace(text))) =>
              /\ Len(indexer_tokens) < Len(query_tokens)
              /\ Flatten(indexer_tokens) = Flatten(query_tokens)

\* The indexer has merged what the query parser split.
C4_Witness ==
    /\ BothTokenized
    /\ Len(query_tokens) >= 2
    /\ Len(indexer_tokens) < Len(query_tokens)
-----------------------------------------------------------------------------
(* The documents as the claims read them: token streams, not postings *)

IndexBuilt == pc \in {"indexed", "ranked", "phrase_ranked"}

DocIds == {data[n].doc_id : n \in DOMAIN data}

Doc(doc_id) == CHOOSE doc \in Range(data) : doc.doc_id = doc_id

TitleTokens(doc_id) == Indexer_tokenize(Doc(doc_id).title)
BodyTokens(doc_id)  == Indexer_tokenize(Doc(doc_id).body)

\* The zero-based positions of a term in a token stream, ascending.
PositionsIn(tokens, term) ==
    SortedSeq({p - 1 : p \in {q \in DOMAIN tokens : tokens[q] = term}})

\* The documents of a result list, and their order.
ResultDocs  == {result[i][1] : i \in DOMAIN result}
ResultOrder == [i \in DOMAIN result |-> result[i][1]]

-----------------------------------------------------------------------------
(* C2: the postings after build_index *)

\* C2: after build_index every (term, doc_id) posting has strictly
\* increasing zero-based title and body positions, each smaller than the
\* recorded length of its field, as many positions as the term frequency of
\* the field, and title_tf + body_tf >= 1.
C2_PostingsWellFormed ==
    IndexBuilt =>
        \A term \in DOMAIN inverted_index :
            \A doc_id \in DOMAIN inverted_index[term].at :
                LET posting == inverted_index[term].at[doc_id]
                IN /\ StrictlyIncreasing(posting.title_positions)
                   /\ StrictlyIncreasing(posting.body_positions)
                   /\ \A p \in Range(posting.title_positions) :
                         0 <= p /\ p < document_lengths[doc_id].title
                   /\ \A p \in Range(posting.body_positions) :
                         0 <= p /\ p < document_lengths[doc_id].body
                   /\ Len(posting.title_positions) = posting.title_tf
                   /\ Len(posting.body_positions) = posting.body_tf
                   /\ posting.title_tf + posting.body_tf >= 1

\* A term that stands twice in the title of a document and in its body.
C2_Witness ==
    /\ pc = "indexed"
    /\ \E term \in DOMAIN inverted_index :
         \E doc_id \in DOMAIN inverted_index[term].at :
            /\ inverted_index[term].at[doc_id].title_tf >= 2
            /\ inverted_index[term].at[doc_id].body_tf >= 1

-----------------------------------------------------------------------------
(* C3: the sign of idf *)

\* df(term): the number of documents in the postings of the term.
Df(term) == Len(inverted_index[term].keys)

\* C3 as stated: after build_index the idf of every term is never negative.
C3_IdfNeverNegative ==
    IndexBuilt => \A term \in DOMAIN idf_values : idf_values[term] >= 0

\* C3, amended: after build_index on N documents, N >= df(term) holds for
\* every term, and idf = ln(N / (df + 1)) is negative exactly for the terms
\* that every document holds (df = N), zero for df = N - 1 and positive for
\* df < N - 1.
C3_IdfNegativeIffInEveryDocument ==
    IndexBuilt =>
        /\ doc_count = Len(data)
        /\ DOMAIN idf_values = DOMAIN inverted_index
        /\ \A term \in DOMAIN idf_values :
              /\ Df(term) >= 1
              /\ doc_count >= Df(term)
              /\ (idf_values[term] < 0) <=> (Df(term) = doc_count)
              /\ (idf_values[term] = 0) <=> (Df(term) = doc_count - 1)
              /\ (idf_values[term] > 0) <=> (Df(term) < doc_count - 1)

\* Several documents, a term in all of them and a term in one only.
C3_Witness ==
    /\ pc = "indexed"
    /\ doc_count >= 2
    /\ \E term \in DOMAIN idf_values : Df(term) = doc_count /\ idf_values[term] < 0
    /\ \E term \in DOMAIN idf_values : Df(term) < doc_count /\ idf_values[term] >= 0
-----------------------------------------------------------------------------
(* C5: the documents a phrase query returns *)

\* The terms stand at consecutive positions of the token stream.
ContainsPhrase(tokens, ts) ==
    \E p \in 1..(Len(tokens) - Len(ts) + 1) :
        SubSeq(tokens, p, p + Len(ts) - 1) = ts

\* Every term stands somewhere in the title or the body of the document.
HoldsEveryTerm(doc_id, ts) ==
    \A i \in DOMAIN ts : ts[i] \in Range(TitleTokens(doc_id)) \cup Range(BodyTokens(doc_id))

\* C5: for a phrase query of k >= 2 tokens, _rank_phrase returns a document
\* if and only if the tokens stand at consecutive positions, in order, of
\* its title token stream or of its body token stream; it returns no
\* document twice.
C5_PhraseIffAdjacentInOneField ==
    (pc = "phrase_ranked" /\ Len(terms) >= 2) =>
        /\ Len(result) = Cardinality(ResultDocs)
        /\ \A doc_id \in DocIds :
              doc_id \in ResultDocs <=>
                  \/ ContainsPhrase(TitleTokens(doc_id), terms)
                  \/ ContainsPhrase(BodyTokens(doc_id), terms)

\* A phrase query that returns a document and leaves out another one that
\* holds every term of it.
C5_Witness ==
    /\ pc = "phrase_ranked"
    /\ Len(terms) >= 2
    /\ result # <<>>
    /\ \E doc_id \in DocIds \ ResultDocs : HoldsEveryTerm(doc_id, terms)

-----------------------------------------------------------------------------
(* C6: the order of a result list *)

\* C6 as stated: the result list of _rank and of _rank_phrase descends by
\* score, and two documents of equal score stand in ascending doc_id order.
C6_SortedByScoreThenDocId ==
    pc \in {"ranked", "phrase_ranked"} =>
        \A i \in DOMAIN result : \A j \in DOMAIN result :
            i < j =>
                \/ result[i][2] > result[j][2]
                \/ (result[i][2] = result[j][2] /\ result[i][1] < result[j][1])

-----------------------------------------------------------------------------
(* C7: a corpus of one document *)

\* C7 as stated: in a corpus of one document the idf of every term is
\* negative and every bag-of-words query returns the empty list.
C7_OneDocumentReturnsNothing ==
    (pc = "ranked" /\ Len(data) = 1) =>
        /\ \A term \in DOMAIN idf_values : idf_values[term] < 0
        /\ result = <<>>

\* C7, amended: in a corpus of one document the idf of every term is
\* negative and so is the weighted score of the document for every query
\* that reaches it; the query returns the empty list unless the document
\* earns the title-exact-match bonus, and a document that is returned has
\* earned it.  For the document with title foo and body foo foo foo the
\* query foo earns the bonus and returns the document with a score between
\* 47 and 48.
C7_OneDocumentReturnedOnlyWithTitleBonus ==
    (pc = "ranked" /\ Len(data) = 1) =>
        /\ \A term \in DOMAIN idf_values : idf_values[term] < 0
        /\ \A doc_id \in DOMAIN rank_locals :
              /\ rank_locals[doc_id].combined_score < 0
              /\ rank_locals[doc_id].title_match_bonus = 0 => doc_id \notin ResultDocs
        /\ \A doc_id \in ResultDocs :
              rank_locals[doc_id].title_match_bonus = TitleMatchBonus
        /\ (data = Scenario3Corpus /\ terms = <<Foo>>) =>
              /\ ResultOrder = <<1>>
              /\ result[1][2] > 47 * Milli
              /\ result[1][2] < 48 * Milli

\* The query foo on the document with title foo and body foo foo foo.
C7_Witness ==
    /\ pc = "ranked"
    /\ data = Scenario3Corpus
    /\ terms = <<Foo>>
    /\ result # <<>>
-----------------------------------------------------------------------------
(* C8: title match against body match in phrase ranking *)

PhraseOnScenario1 ==
    /\ pc = "phrase_ranked"
    /\ data = Scenario1Corpus
    /\ terms = <<Search, Engine>>

\* The place of a document in the result list.
Rank(doc_id) == CHOOSE i \in DOMAIN result : result[i][1] = doc_id

\* The document holds the terms in its title only, the other one in its
\* body only, each term as often.
TitleAgainstBody(title_doc, body_doc) ==
    \A i \in DOMAIN terms :
        /\ inverted_index[terms[i]].at[title_doc].body_tf = 0
        /\ inverted_index[terms[i]].at[body_doc].title_tf = 0
        /\ inverted_index[terms[i]].at[title_doc].title_tf
             = inverted_index[terms[i]].at[body_doc].body_tf

\* The sum of tf * idf over the terms of the query, in thousandths.
RECURSIVE SumTfIdf(_, _)
SumTfIdf(doc_id, i) ==
    IF i > Len(terms) THEN 0
    ELSE inverted_index[terms[i]].at[doc_id].title_tf * idf_values[terms[i]]
           + SumTfIdf(doc_id, i + 1)

\* C8 as stated: on the corpus d1, d2, d3 the phrase query search engine
\* returns exactly d1 then d3, the title match before the body match.
C8_TitleMatchBeforeBodyMatch ==
    PhraseOnScenario1 => ResultOrder = <<1, 3>>

\* C8, amended: on the corpus d1, d2, d3 the phrase query search engine
\* returns exactly d3 then d1, both with a negative score, and d2 is absent:
\* search and engine stand in all three documents, so their idf is negative
\* and the heavier title weight makes the score of d1 the lower one.  In
\* phrase ranking a document that holds the phrase in its title ranks before
\* one that holds it only in its body with the same term counts when the sum
\* of tf * idf over the terms is positive, and after it when the sum is
\* negative.
C8_TitleMatchFirstIffPositiveIdf ==
    /\ PhraseOnScenario1 =>
          /\ ResultOrder = <<3, 1>>
          /\ idf_values[Search] < 0
          /\ idf_values[Engine] < 0
          /\ result[1][2] < 0
          /\ result[2][2] < result[1][2]
    /\ (pc = "phrase_ranked" /\ Len(terms) >= 2) =>
          \A title_doc \in ResultDocs : \A body_doc \in ResultDocs :
              TitleAgainstBody(title_doc, body_doc) =>
                  /\ SumTfIdf(title_doc, 1) > 0 => Rank(title_doc) < Rank(body_doc)
                  /\ SumTfIdf(title_doc, 1) < 0 => Rank(body_doc) < Rank(title_doc)

\* The phrase query search engine has been ranked on d1, d2, d3.
C8_Witness ==
    /\ PhraseOnScenario1
    /\ Len(result) = 2
    /\ TitleAgainstBody(1, 3)

-----------------------------------------------------------------------------
(* C9: query terms that the index does not hold *)

IsKnown(term) == term \in DOMAIN inverted_index

KnownTerms(ts) == SelectSeq(ts, IsKnown)

HasUnknownTerm == \E i \in DOMAIN terms : ~IsKnown(terms[i])

\* C9 as stated: _rank(T) returns the documents and scores of _rank(T
\* without its unknown terms), and the empty list when every term of T is
\* unknown.
C9_UnknownTermsDropped ==
    pc = "ranked" =>
        /\ Range(result) =
             Range(SearchEngine_rank(KnownTerms(terms),
                                     SortedSeq(CandidateDocs(KnownTerms(terms)))))
        /\ KnownTerms(terms) = <<>> => result = <<>>

\* C9, amended: an unknown term adds no candidate and nothing to the
\* weighted score, and _rank returns the empty list when every term is
\* unknown; but the term is not dropped: with an unknown term in the query
\* no document earns a proximity bonus or the title-exact-match bonus, so
\* _rank returns the candidates of the known terms whose weighted score is
\* positive, each with that score.
C9_UnknownTermsAddNothingAndCancelBonuses ==
    (pc = "ranked" /\ HasUnknownTerm) =>
        /\ DOMAIN rank_locals = CandidateDocs(KnownTerms(terms))
        /\ KnownTerms(terms) = <<>> => result = <<>>
        /\ \A doc_id \in DOMAIN rank_locals :
              /\ rank_locals[doc_id].combined_score
                   = RankDocument(KnownTerms(terms), doc_id).combined_score
              /\ rank_locals[doc_id].prox_bonus = 0
              /\ rank_locals[doc_id].title_match_bonus = 0
              /\ rank_locals[doc_id].final_score = rank_locals[doc_id].combined_score
        /\ Range(result) =
             {<<doc_id, rank_locals[doc_id].combined_score>>
              : doc_id \in {d \in DOMAIN rank_locals : rank_locals[d].combined_score > 0}}

\* A query of a known and an unknown term that returns a document.
C9_Witness ==
    /\ pc = "ranked"
    /\ HasUnknownTerm
    /\ KnownTerms(terms) # <<>>
    /\ result # <<>>
-----------------------------------------------------------------------------
(* C10: the title-exact-match bonus *)

\* The title positions of each query term in the document.
TitlePositionLists(doc_id) ==
    [i \in DOMAIN terms |-> PositionsIn(TitleTokens(doc_id), terms[i])]

\* Every query token has a title position.
AllInTitle(doc_id) ==
    \A i \in DOMAIN terms : TitlePositionLists(doc_id)[i] # <<>>

\* The minimum title span s.
TitleSpan(doc_id) == BruteForceSpan(TitlePositionLists(doc_id))

HasTitleBonus(doc_id) == rank_locals[doc_id].title_match_bonus = TitleMatchBonus

\* C10 as stated: the bonus of 50 is added to a candidate of a k-token
\* query if and only if every token has a title position and the minimum
\* title span s satisfies s < max_span_dist and s == k - 1.
C10_BonusIffSpanBelowMaxAndContiguous ==
    pc = "ranked" =>
        \A doc_id \in DOMAIN rank_locals :
            HasTitleBonus(doc_id) <=>
                /\ AllInTitle(doc_id)
                /\ TitleSpan(doc_id) < max_span_dist
                /\ TitleSpan(doc_id) = Len(terms) - 1

\* C10, amended: the bonus of 50 is added to a candidate of a k-token query
\* if and only if every token has a title position and the minimum title
\* span s satisfies s == k - 1, whether or not s < max_span_dist; a
\* candidate without the bonus gets none of it.
C10_BonusIffContiguous ==
    pc = "ranked" =>
        \A doc_id \in DOMAIN rank_locals :
            /\ rank_locals[doc_id].title_match_bonus \in {0, TitleMatchBonus}
            /\ HasTitleBonus(doc_id) <=>
                  /\ AllInTitle(doc_id)
                  /\ TitleSpan(doc_id) = Len(terms) - 1

\* A query of max_span_dist + 1 tokens has earned the bonus.
C10_Witness ==
    /\ pc = "ranked"
    /\ Len(terms) - 1 >= max_span_dist
    /\ \E doc_id \in DOMAIN rank_locals : HasTitleBonus(doc_id)
-----------------------------------------------------------------------------
(* C11: the page cap and the single fetch of crawl *)

\* The number of pages stored in crawled_data does not exceed max_pages.
StoredWithinMaxPages == Len(crawled_data) <= max_pages

\* No normalized URL has been fetched twice, and every fetched URL was
\* added to visited before.
FetchedOnce ==
    /\ \A i \in DOMAIN fetched : \A j \in DOMAIN fetched : fetched[i] = fetched[j] => i = j
    /\ Range(fetched) \subseteq visited
    /\ pc = "crawl_fetch" => (current_url \in visited /\ current_url \notin Range(fetched))

\* C11 as stated: in every reachable state of crawl, for any link graph and
\* any pattern of fetch or parse failures, the number of pages stored in
\* crawled_data never exceeds max_pages, and no normalized URL is fetched
\* more than once.
C11_StoredWithinMaxPagesAndFetchedOnce ==
    StoredWithinMaxPages /\ FetchedOnce

=============================================================================
